---- MODULE Spec2Model ----
(***************************************************************************)
(* Nomis memory game (ATTiny85 Simon clone): the control loop of main(),   *)
(* the linear congruential generator rand_lcg, the charlieplex encoder     *)
(* led_display, the idle animation cascade_leds, blink_leds and the edge   *)
(* sensitive input classifier get_player_move.                             *)
(*                                                                         *)
(* One action models one iteration of the while(1) loop of main(), one per *)
(* branch of its if/else chain.  uint16_t values wrap modulo 2^16 and      *)
(* uint8_t values modulo 2^8 (avr-gcc: int is 16 bits wide).               *)
(***************************************************************************)
EXTENDS Integers, Sequences, FiniteSets, TLC

(***************************************************************************)
(* Program constants                                                       *)
(***************************************************************************)
MAX_PERIOD == 32768

MULTIPLIER == 513

C == 1

MAX_MOVES == 100

\* enum STATE
IDLE == "IDLE"

CPU == "CPU"

PLAYER == "PLAYER"

LOSE == "LOSE"

\* width of uint16_t and uint8_t
Word == 65536

Byte == 256

\* An object declared without an initialiser (moves[], player_move) or not
\* yet written: its content is indeterminate.
Uninit == -1

(***************************************************************************)
(* Bounds of the model                                                     *)
(***************************************************************************)
\* Idle iterations per run of Spec (every game starts with at least one).
MaxIdle == 3

\* CPU turns per game in Spec; SpecLong plays on to the end of moves[].
MaxRounds == 3

\* games of a player alternating released and pressed samples (SpecAlternate)
MaxGames == 2

\* EEPROM words whose first moves take every value, equal and different
\* neighbours included
AltSeeds == {0, 4, 9, 15, 25, 31, 57, 62}

\* IDLE iterations of a run of the animation (SpecCascade)
MaxCascade == 13

\* EEPROM words found at start-up.
Seeds == {0, 32767, 32768, 40000, 65535}

\* ADC samples: the edges of the four button bands and of the idle threshold.
Samples == {0, 200, 201, 499, 500, 520, 521, 599, 600, 620, 621,
            659, 660, 680, 681, 709, 710, 730, 731, 1023}

\* One sample per band, and with a released sample, for the long game.
PressSamples == {510, 610, 670, 720}

LongSamples == PressSamples \cup {0}

\* The EEPROM word of the long game.
LongSeeds == {12345}

VARIABLES
    gamestate,       \* enum STATE gamestate
    moves,           \* uint8_t moves[MAX_MOVES]
    cpu_counter,     \* uint16_t cpu_counter
    player_counter,  \* uint16_t player_counter
    random,          \* uint16_t random
    player_move,     \* uint16_t player_move
    eeprom,          \* the EEPROM word at address 46
    PORTB,           \* output port register
    cascade_i,       \* static i of cascade_leds
    cascade_up,      \* static up of cascade_leds
    prev_move,       \* static prev_move of get_player_move
    raw_move,        \* sample read by the last get_player_move call
    inputs,          \* history: non-zero moves returned since PLAYER was entered
    store_idx,       \* history: index of the last store moves[cpu_counter] = ...
    idle_ticks,      \* history: number of IDLE iterations so far
    lcg_in,          \* history: the state passed to the last rand_lcg call of main()
    ADC,             \* ADC data register: the last conversion read_adc returned
    seed,            \* history: the word eeprom_read_word returned at start-up
    port_log,        \* history: the writes to PORTB of the last loop iteration
    last_poll,       \* history: the sample of the previous poll of this PLAYER
                     \* turn, Uninit before its first poll
    call             \* a function called on its own: its name, argument, result
                     \* and the number of calls

vars == <<gamestate, moves, cpu_counter, player_counter, random, player_move,
          eeprom, PORTB, cascade_i, cascade_up, prev_move, raw_move, inputs,
          store_idx, idle_ticks, lcg_in, ADC, seed, port_log, last_poll,
          call>>

gameVars == <<gamestate, moves, cpu_counter, player_counter, random, player_move,
              eeprom, PORTB, cascade_i, cascade_up, prev_move, raw_move, inputs,
              store_idx, idle_ticks, lcg_in, ADC, seed, port_log, last_poll>>

(***************************************************************************)
(* Bit operations on bytes                                                 *)
(***************************************************************************)
RECURSIVE BitOr(_, _)
BitOr(a, b) ==
    IF a = 0 THEN b
    ELSE IF b = 0 THEN a
    ELSE (IF (a % 2 = 1) \/ (b % 2 = 1) THEN 1 ELSE 0)
         + 2 * BitOr(a \div 2, b \div 2)

RECURSIVE BitAnd(_, _)
BitAnd(a, b) ==
    IF a = 0 \/ b = 0 THEN 0
    ELSE (IF (a % 2 = 1) /\ (b % 2 = 1) THEN 1 ELSE 0)
         + 2 * BitAnd(a \div 2, b \div 2)

\* x << k and x >> k on non-negative integers
Shl(x, k) == x * (2 ^ k)

Shr(x, k) == x \div (2 ^ k)

(***************************************************************************)
(* rand_lcg: (lcg_previous*a + c) % m in unsigned 16-bit arithmetic        *)
(***************************************************************************)
\* mutant of rand_lcg: the reduction modulo m is dropped
rand_lcg_noModulus(lcg_previous, m, a, c) ==
    (((lcg_previous * a) % Word) + c) % Word

\* mutant of rand_lcg: the increment c is dropped
rand_lcg_noIncrement(lcg_previous, m, a, c) ==
    ((lcg_previous * a) % Word) % m

\* lines 279-282; the product and the sum wrap modulo 2^16 before % m
rand_lcg(lcg_previous, m, a, c) ==
    ((((lcg_previous * a) % Word) + c) % Word) % m

(***************************************************************************)
(* led_display: one-hot move -> charlieplex pattern on PORTB[2:0]          *)
(***************************************************************************)
\* mutant of led_display: 0x08 is given the pattern of 0x01
led_display_dup(state) ==
    CASE state = 1 -> 3
      [] state = 2 -> 4
      [] state = 4 -> 6
      [] state = 8 -> 3
      [] OTHER -> 0

led_display(state) ==
    CASE state = 1 -> 3
      [] state = 2 -> 4
      [] state = 4 -> 6
      [] state = 8 -> 1
      [] OTHER -> 0

\* led_display of the first version of the program (memory-game.c)
led_display_v0(state) ==
    CASE state = 1 -> 2
      [] state = 2 -> 5
      [] state = 4 -> 4
      [] state = 8 -> 3
      [] OTHER -> 0

(***************************************************************************)
(* Writes to PORTB.  The port is threaded through the code of an iteration *)
(* as a record: port, the register; pre, the values the register held      *)
(* immediately before a |=; vals, the values it held; seq, the values      *)
(* written in order (the writes inside blink_leds left out).               *)
(***************************************************************************)
PortBegin(port) == [port |-> port, pre |-> {}, vals |-> {port}, seq |-> <<>>]

\* PORTB |= pattern
port_or(io, pattern) ==
    LET p == BitOr(io.port, pattern)
    IN  [port |-> p,
         pre  |-> io.pre \cup {io.port},
         vals |-> io.vals \cup {p},
         seq  |-> Append(io.seq, p)]

\* PORTB &= mask
port_and(io, mask) ==
    LET p == BitAnd(io.port, mask)
    IN  [port |-> p,
         pre  |-> io.pre,
         vals |-> io.vals \cup {p},
         seq  |-> Append(io.seq, p)]

\* mutant of clear_display: the mask 0x0F, which keeps the output bits
clear_display_keeps(io) == port_and(io, 15)

\* #define clear_display() PORTB &= 0xF0;
clear_display(io) == port_and(io, 240)

\* #define set_display(state) PORTB |= led_display(state);
\* (the argument is converted to uint8_t)
set_display(io, state) == port_or(io, led_display(state % Byte))

(***************************************************************************)
(* blink_leds: 100 times, each of the four patterns set and cleared        *)
(***************************************************************************)
\* lines 265-270: the inner loop, j = from..3
RECURSIVE blink_inner(_, _)
blink_inner(io, j) ==
    IF j <= 3
    THEN blink_inner(clear_display(set_display(io, Shl(1, j))), j + 1)
    ELSE io

\* lines 264-271: the passes i..99 of the outer loop.  Every pass applies the
\* same inner loop to the port, so once a pass leaves the port as it found
\* it the remaining passes repeat its writes and leave it too.
RECURSIVE blink_outer(_, _)
blink_outer(io, i) ==
    IF i < 100
    THEN LET p == blink_inner(io, 0)
         IN  IF p.port = io.port THEN p ELSE blink_outer(p, i + 1)
    ELSE io

blink_leds(io) == [blink_outer(io, 0) EXCEPT !.seq = io.seq]

(***************************************************************************)
(* cascade_leds: one animation step; returns the port, the new i and up    *)
(***************************************************************************)
\* mutant of cascade_leds: the direction is turned one position late
cascade_leds_late(io, i, up) ==
    LET shown == port_or(io, led_display(Shl(1, i) % Byte))
        off   == port_and(shown, 240)
        up1   == IF i = 4 THEN 0 ELSE IF i = 0 THEN 1 ELSE up
        i1    == IF up1 # 0 THEN (i + 1) % Word ELSE (i + Word - 1) % Word
    IN  [io |-> off, i |-> i1, up |-> up1]

cascade_leds(io, i, up) ==
    LET shown == port_or(io, led_display(Shl(1, i) % Byte))
        off   == port_and(shown, 240)
        up1   == IF i = 3 THEN 0 ELSE IF i = 0 THEN 1 ELSE up
        i1    == IF up1 # 0 THEN (i + 1) % Word ELSE (i + Word - 1) % Word
    IN  [io |-> off, i |-> i1, up |-> up1]

(***************************************************************************)
(* get_player_move                                                         *)
(***************************************************************************)
\* mutant of classify: the upper edge of every band is excluded
classify_exclusive(raw) ==
    IF (raw >= 500) /\ (raw < 520) THEN 1
    ELSE IF (raw >= 600) /\ (raw < 620) THEN 2
    ELSE IF (raw >= 660) /\ (raw < 680) THEN 4
    ELSE IF (raw >= 710) /\ (raw < 730) THEN 8
    ELSE 0

\* lines 305-315: the band of the raw sample
classify(raw) ==
    IF (raw >= 500) /\ (raw <= 520) THEN 1
    ELSE IF (raw >= 600) /\ (raw <= 620) THEN 2
    ELSE IF (raw >= 660) /\ (raw <= 680) THEN 4
    ELSE IF (raw >= 710) /\ (raw <= 730) THEN 8
    ELSE 0

\* mutant of get_player_move: level sensitive, a held button is reported again
get_player_move_level(raw, prev) ==
    [ret |-> classify(raw), prev |-> classify(raw)]

\* mutant of get_player_move: a release is not remembered
get_player_move_sticky(raw, prev) ==
    LET move == classify(raw)
    IN  IF move = prev
        THEN [ret |-> 0, prev |-> prev]
        ELSE [ret |-> move, prev |-> IF move = 0 THEN prev ELSE move]

\* mutant of get_player_move: the changed move is returned, not remembered
get_player_move_forgets(raw, prev) ==
    LET move == classify(raw)
    IN  IF move = prev
        THEN [ret |-> 0, prev |-> prev]
        ELSE [ret |-> move, prev |-> prev]

\* lines 317-325: the edge detector; the value returned and the new prev_move
get_player_move(raw, prev) ==
    LET move == classify(raw)
    IN  IF move = prev
        THEN [ret |-> 0, prev |-> prev]
        ELSE [ret |-> move, prev |-> move]

(***************************************************************************)
(* main(): start-up                                                        *)
(***************************************************************************)
NoCall == [fn |-> "none", arg |-> 0, ret |-> Uninit, n |-> 0]

\* The state when the while(1) loop is first entered, the EEPROM word at
\* address 46 being one of seedset.
GameInit(seedset) ==
    /\ gamestate = IDLE
    /\ moves = [k \in 0..(MAX_MOVES - 1) |-> Uninit]
    /\ cpu_counter = 0
    /\ player_counter = 0
    /\ eeprom \in seedset
    /\ seed = eeprom
    /\ random = seed
    /\ player_move = Uninit
    /\ PORTB = 0
    /\ cascade_i = 0
    /\ cascade_up = 1
    /\ prev_move = 0
    /\ raw_move = Uninit
    /\ inputs = <<>>
    /\ store_idx = Uninit
    /\ idle_ticks = 0
    /\ lcg_in = Uninit
    /\ ADC = 0
    /\ port_log = [pre |-> {}, vals |-> {0}, seq |-> <<>>]
    /\ last_poll = Uninit

\* The store moves[cpu_counter] of every CPU turn so far was inside moves[].
\* After a store beyond the array the behaviour of the program is undefined
\* and the model stops.
Running == store_idx < MAX_MOVES

\* mutant of eeprom_write_word: only the low byte is stored
eeprom_write_byte(word) == word % Byte

\* eeprom_write_word((uint16_t *)46, word): the word stored
eeprom_write_word(word) == word

\* The port at the end of an iteration and the record of its writes.
Drive(io) ==
    /\ PORTB' = io.port
    /\ port_log' = [pre |-> io.pre, vals |-> io.vals, seq |-> io.seq]

(***************************************************************************)
(* main(): the CPU branch, lines 119-137                                   *)
(***************************************************************************)
\* mutant of MoveOf: the shift keeps three bits of the random word
MoveOf_shift12(r) == Shl(1, Shr(r, 12)) % Byte

\* line 125: 0x01 << (random >> 13), stored into a uint8_t
MoveOf(r) == Shl(1, Shr(r, 13)) % Byte

\* mutant of StoreMove: the move is stored at index 0
StoreMove_first(mv, idx, m) == [mv EXCEPT ![0] = m]

\* line 125: the array after the store moves[idx] = m; a store beyond the
\* array leaves the array as it is.
StoreMove(mv, idx, m) ==
    IF idx \in DOMAIN mv THEN [mv EXCEPT ![idx] = m] ELSE mv

\* lines 127-134: the playback loop for i = from..last; a read of moves[i]
\* beyond the array gives the byte `beyond`.
RECURSIVE Playback(_, _, _, _, _)
Playback(io, mv, beyond, from, last) ==
    IF from <= last
    THEN LET byte == IF from \in DOMAIN mv THEN mv[from] ELSE beyond
             p    == port_and(port_or(io, led_display(byte)), 240)
         IN  IF p.port \in Nat
             THEN Playback(p, mv, beyond, from + 1, last)
             ELSE p
    ELSE io

\* mutant of PlaybackLast: i < cpu_counter, the new move is not shown
PlaybackLast_exclusive(cc) == cc - 1

\* line 127: the last index of the loop, i <= cpu_counter
PlaybackLast(cc) == cc

\* lines 135: cpu_counter += 1
NextCount(n) == (n + 1) % Word

\* One iteration of the CPU branch, for cpu_counter < cap.  Nothing in the
\* branch compares cpu_counter with MAX_MOVES: with cpu_counter = MAX_MOVES the
\* store of line 125 falls beyond moves[] (store_idx records the index), the
\* array itself is left as it is and the playback reads back the byte stored.
CpuIter(cap) ==
    /\ gamestate = CPU
    /\ Running
    /\ cpu_counter < cap
    /\ lcg_in' = random
    /\ random' = rand_lcg(random, MAX_PERIOD, MULTIPLIER, C)
    /\ eeprom' = eeprom_write_word(random')
    /\ moves' = StoreMove(moves, cpu_counter, MoveOf(random'))
    /\ store_idx' = cpu_counter
    /\ Drive(Playback(PortBegin(PORTB), moves', MoveOf(random'), 0,
                      PlaybackLast(cpu_counter)))
    /\ cpu_counter' = NextCount(cpu_counter)
    /\ gamestate' = PLAYER
    /\ inputs' = <<>>
    /\ last_poll' = Uninit
    /\ UNCHANGED <<player_counter, player_move, cascade_i, cascade_up,
                   prev_move, raw_move, idle_ticks, ADC, seed, call>>

(***************************************************************************)
(* main(): the PLAYER branch, lines 138-169                                *)
(***************************************************************************)
\* lines 143-149: the move is flashed twice
Feedback(io, pm) ==
    clear_display(set_display(clear_display(set_display(io, pm)), pm))

\* line 150: the bytes a read of moves[idx] can give
ReadMove(idx) ==
    IF idx \in DOMAIN moves /\ moves[idx] # Uninit
    THEN {moves[idx]}
    ELSE 0..(Byte - 1)

\* mutant of PlayerNone: a poll without a move is counted as a match
PlayerNone_counts ==
    /\ Drive(clear_display(PortBegin(PORTB)))
    /\ player_counter' = (player_counter + 1) % Word
    /\ UNCHANGED <<gamestate, cpu_counter, inputs>>

\* lines 140-141: no move
PlayerNone ==
    /\ Drive(clear_display(PortBegin(PORTB)))
    /\ UNCHANGED <<gamestate, cpu_counter, player_counter, inputs>>

\* mutant of PlayerRoundDone: player_counter is not reset
PlayerRoundDone_keepsProgress(pm) ==
    /\ gamestate' = CPU
    /\ Drive(Feedback(PortBegin(PORTB), pm))
    /\ inputs' = Append(inputs, pm)
    /\ UNCHANGED <<player_counter, cpu_counter>>

\* mutant of PlayerRoundDone: the state is left at PLAYER
PlayerRoundDone_stays(pm) ==
    /\ player_counter' = 0
    /\ Drive(Feedback(PortBegin(PORTB), pm))
    /\ inputs' = Append(inputs, pm)
    /\ UNCHANGED <<gamestate, cpu_counter>>

\* lines 151-154: the last move of the sequence was matched
PlayerRoundDone(pm) ==
    /\ player_counter' = 0
    /\ gamestate' = CPU
    /\ Drive(Feedback(PortBegin(PORTB), pm))
    /\ inputs' = Append(inputs, pm)
    /\ UNCHANGED cpu_counter

\* lines 155-157: a move before the last was matched
PlayerNext(pm) ==
    /\ player_counter' = (player_counter + 1) % Word
    /\ Drive(Feedback(PortBegin(PORTB), pm))
    /\ inputs' = Append(inputs, pm)
    /\ UNCHANGED <<gamestate, cpu_counter>>

\* mutant of PlayerMismatch: the sequence length is not reset
PlayerMismatch_keepsLength(pm) ==
    /\ player_counter' = 0
    /\ gamestate' = IDLE
    /\ Drive(blink_leds(blink_leds(Feedback(PortBegin(PORTB), pm))))
    /\ inputs' = Append(inputs, pm)
    /\ UNCHANGED cpu_counter

\* mutant of PlayerMismatch: the state documented as LOSE is entered
PlayerMismatch_toLose(pm) ==
    /\ player_counter' = 0
    /\ cpu_counter' = 0
    /\ gamestate' = LOSE
    /\ Drive(blink_leds(blink_leds(Feedback(PortBegin(PORTB), pm))))
    /\ inputs' = Append(inputs, pm)

\* lines 158-168: a wrong move
PlayerMismatch(pm) ==
    /\ player_counter' = 0
    /\ cpu_counter' = 0
    /\ gamestate' = IDLE
    /\ Drive(blink_leds(blink_leds(Feedback(PortBegin(PORTB), pm))))
    /\ inputs' = Append(inputs, pm)

\* mutant of IsLast: the round ends one move late
IsLast_late(pc, cc) == pc = cc

\* line 151: player_counter == (cpu_counter-1)
IsLast(pc, cc) == pc = (cc + Word - 1) % Word

PlayerIter(sample) ==
    /\ gamestate = PLAYER
    /\ Running
    /\ LET g == get_player_move(sample, prev_move)
       IN  /\ ADC' = sample
           /\ raw_move' = sample
           /\ last_poll' = sample
           /\ prev_move' = g.prev
           /\ player_move' = g.ret
           /\ IF g.ret = 0
              THEN PlayerNone
              ELSE \E stored \in ReadMove(player_counter) :
                     IF g.ret = stored
                     THEN IF IsLast(player_counter, cpu_counter)
                          THEN PlayerRoundDone(g.ret)
                          ELSE PlayerNext(g.ret)
                     ELSE PlayerMismatch(g.ret)
    /\ UNCHANGED <<moves, random, eeprom, cascade_i, cascade_up, store_idx,
                   idle_ticks, lcg_in, seed, call>>

(***************************************************************************)
(* main(): the IDLE branch, lines 170-183                                  *)
(***************************************************************************)
\* mutant of IdleStep: the step 0x0101 in place of 0x0001
IdleStep_0101(r) == (r + 257) % Word

\* line 174: random += 0x0001
IdleStep(r) == (r + 1) % Word

\* line 177: read_adc() > 200
Activated(sample) == sample > 200

IdleIter(sample, cap) ==
    /\ gamestate = IDLE
    /\ Running
    /\ idle_ticks < cap
    /\ random' = IdleStep(random)
    /\ eeprom' = eeprom_write_word(random')
    /\ ADC' = sample
    /\ LET c == cascade_leds(PortBegin(PORTB), cascade_i, cascade_up)
       IN  /\ cascade_i' = c.i
           /\ cascade_up' = c.up
           /\ IF Activated(sample)
              THEN /\ gamestate' = CPU
                   /\ Drive(blink_leds(blink_leds(c.io)))
              ELSE /\ gamestate' = IDLE
                   /\ Drive(c.io)
    /\ idle_ticks' = idle_ticks + 1
    /\ UNCHANGED <<moves, cpu_counter, player_counter, player_move, prev_move,
                   raw_move, inputs, store_idx, lcg_in, seed, last_poll, call>>

(***************************************************************************)
(* main(): the error branch, lines 184-194                                 *)
(***************************************************************************)
\* lines 186-193: LED 1 and LED 4 are flashed
ErrorBranch(io) ==
    port_and(port_or(port_and(port_or(io, led_display(1)), 240),
                     led_display(8)), 240)

\* One iteration of the final else: gamestate is none of CPU, PLAYER, IDLE.
ErrorIter ==
    /\ gamestate \notin {CPU, PLAYER, IDLE}
    /\ Drive(ErrorBranch(PortBegin(PORTB)))
    /\ UNCHANGED <<gamestate, moves, cpu_counter, player_counter, random,
                   player_move, eeprom, cascade_i, cascade_up, prev_move,
                   raw_move, inputs, store_idx, idle_ticks, lcg_in, ADC, seed,
                   last_poll, call>>

(***************************************************************************)
(* The game: every EEPROM word of Seeds, at most MaxIdle idle iterations   *)
(* and MaxRounds CPU turns per game.                                       *)
(***************************************************************************)
Init == GameInit(Seeds) /\ call = NoCall

Next ==
    \/ CpuIter(MaxRounds)
    \/ \E sample \in Samples : PlayerIter(sample)
    \/ \E sample \in Samples : IdleIter(sample, MaxIdle)

Spec == Init /\ [][Next]_vars

(***************************************************************************)
(* The long game: one game from the EEPROM word of LongSeeds, started by   *)
(* the first idle iteration and played until the player fails or moves[]   *)
(* is full and the next CPU turn stores beyond it.                         *)
(***************************************************************************)
InitLong == GameInit(LongSeeds) /\ call = NoCall

\* no CPU turn has taken place yet
FirstGame == store_idx = Uninit

NextLong ==
    \/ CpuIter(MAX_MOVES + 1)
    \/ \E sample \in LongSamples : PlayerIter(sample)
    \/ \E sample \in PressSamples : FirstGame /\ IdleIter(sample, MaxIdle)

SpecLong == InitLong /\ [][NextLong]_vars

(***************************************************************************)
(* The alternating player: MaxGames games of at most MaxRounds rounds, each *)
(* started by an activating sample.  The polls of a PLAYER turn alternate  *)
(* a released sample with a sample of the band of moves[player_counter];   *)
(* the first poll of a turn is either, since the playback is not polled;   *)
(* a poll can repeat the sample of the poll before it.  In the games       *)
(* before the last the player can also press a wrong button.  The loop     *)
(* never stops polling and the player never stops alternating: weak        *)
(* fairness of AltPoll.                                                    *)
(***************************************************************************)
InitAlternate == GameInit(AltSeeds) /\ call = NoCall

\* the samples that classify as the move awaited, moves[player_counter]
Awaited ==
    {x \in PressSamples :
        \E stored \in ReadMove(player_counter) : classify(x) = stored}

\* the sample continues the alternation of released and awaited samples
Alternates(sample) ==
    IF last_poll = Uninit
    THEN sample = 0 \/ sample \in Awaited
    ELSE IF classify(last_poll) # 0
         THEN sample = 0
         ELSE sample \in Awaited

AltPoll == \E sample \in LongSamples : Alternates(sample) /\ PlayerIter(sample)

\* the poll finds the sample of the poll before it
HoldPoll == last_poll # Uninit /\ PlayerIter(last_poll)

\* a game after which another can be started
LossAllowed == idle_ticks < MaxGames

WrongPoll ==
    /\ LossAllowed
    /\ \E sample \in PressSamples \ Awaited : PlayerIter(sample)

AltIdle == \E sample \in PressSamples \cup {300} : IdleIter(sample, MaxGames)

NextAlternate ==
    \/ CpuIter(MaxRounds)
    \/ AltPoll
    \/ HoldPoll
    \/ WrongPoll
    \/ AltIdle

SpecAlternate ==
    InitAlternate /\ [][NextAlternate]_vars /\ WF_vars(AltPoll)

(***************************************************************************)
(* The idle animation: games of one round between runs of IDLE iterations, *)
(* MaxCascade IDLE iterations in all.                                      *)
(***************************************************************************)
InitCascade == GameInit(LongSeeds) /\ call = NoCall

NextCascade ==
    \/ CpuIter(1)
    \/ \E sample \in LongSamples : PlayerIter(sample)
    \/ \E sample \in LongSamples : IdleIter(sample, MaxCascade)

SpecCascade == InitCascade /\ [][NextCascade]_vars

(***************************************************************************)
(* The functions called on their own.  The game stands still in its        *)
(* start-up state; `call` holds the argument, the result and the number of *)
(* calls made.                                                             *)
(***************************************************************************)
\* Seeds of the iteration of rand_lcg.
OrbitSeeds == {0, 1, 12345, 32767}

InitCall(args) ==
    /\ GameInit({0})
    /\ call \in {[fn |-> "none", arg |-> a, ret |-> Uninit, n |-> 0] : a \in args}

\* rand_lcg(s, MAX_PERIOD, MULTIPLIER, C) applied to call.arg, then to its own
\* result, at most cap times.
IterRandLcg(cap) ==
    /\ call.fn \in {"none", "rand_lcg"}
    /\ call.n < cap
    /\ call' = [fn  |-> "rand_lcg",
                arg |-> call.arg,
                ret |-> rand_lcg(IF call.n = 0 THEN call.arg ELSE call.ret,
                                 MAX_PERIOD, MULTIPLIER, C),
                n   |-> call.n + 1]
    /\ UNCHANGED gameVars

\* one call of rand_lcg for every 16-bit state
SpecRandLcg == InitCall(0..(Word - 1)) /\ [][IterRandLcg(1)]_vars

\* rand_lcg iterated MAX_PERIOD times from each seed of OrbitSeeds
SpecOrbit == InitCall(OrbitSeeds) /\ [][IterRandLcg(MAX_PERIOD)]_vars

\* one call of led_display (unnamed/part_001) for every uint8_t argument
CallLedDisplay ==
    /\ call.fn = "none"
    /\ call' = [fn |-> "led_display", arg |-> call.arg,
                ret |-> led_display(call.arg), n |-> 1]
    /\ UNCHANGED gameVars

\* one call of led_display (memory-game.c) for every uint8_t argument
CallLedDisplayV0 ==
    /\ call.fn = "none"
    /\ call' = [fn |-> "led_display_v0", arg |-> call.arg,
                ret |-> led_display_v0(call.arg), n |-> 1]
    /\ UNCHANGED gameVars

SpecLedDisplay ==
    InitCall(0..(Byte - 1)) /\ [][CallLedDisplay \/ CallLedDisplayV0]_vars

\* one call of get_player_move with the ADC reading `sample`; call.arg is
\* prev_move on entry
PollMove(sample) ==
    /\ LET g == get_player_move(sample, prev_move)
       IN  /\ ADC' = sample
           /\ raw_move' = sample
           /\ prev_move' = g.prev
           /\ player_move' = g.ret
           /\ call' = [fn |-> "get_player_move", arg |-> prev_move,
                       ret |-> g.ret, n |-> 1]
    /\ UNCHANGED <<gamestate, moves, cpu_counter, player_counter, random,
                   eeprom, PORTB, cascade_i, cascade_up, inputs, store_idx,
                   idle_ticks, lcg_in, seed, port_log, last_poll>>

\* every reading of the 10-bit ADC
AdcRange == 0..1023

SpecPoll == InitCall({0}) /\ [][\E sample \in AdcRange : PollMove(sample)]_vars

(***************************************************************************)
(* Properties of the game                                                  *)
(***************************************************************************)
\* The sequence the player has to reproduce: moves[0..cpu_counter-1]
MoveSequence == [k \in 1..cpu_counter |-> moves[k - 1]]

ValidMoves == {1, 2, 4, 8}

\* C1: a PLAYER iteration leaves PLAYER for CPU if and only if the non-zero
\* moves returned by get_player_move since PLAYER was entered, this
\* iteration's included, are exactly moves[0..cpu_counter-1] in order.
C1_AdvanceIffReproduced ==
    [][ gamestate = PLAYER =>
          ((gamestate' = CPU) <=> (inputs' = MoveSequence)) ]_vars

\* C1 witness: a round of two or more moves was reproduced and advanced.
C1_Witness ==
    /\ gamestate = CPU
    /\ cpu_counter >= 2
    /\ inputs = MoveSequence

C3_LengthBounded ==
    /\ cpu_counter <= MAX_MOVES
    /\ store_idx < MAX_MOVES

\* C4: a CPU iteration increases cpu_counter by exactly one and leaves
\* moves[0..cpu_counter-1] unchanged; any other change of cpu_counter is the
\* reset to 0 by a PLAYER iteration with a wrong move.
C4_AppendOnly ==
    [][ /\ gamestate = CPU =>
             /\ cpu_counter' = cpu_counter + 1
             /\ \A k \in 0..(cpu_counter - 1) : moves'[k] = moves[k]
        /\ (gamestate # CPU /\ cpu_counter' # cpu_counter) =>
             /\ cpu_counter' = 0
             /\ gamestate = PLAYER
             /\ player_move' # 0
             /\ player_move' # moves[player_counter] ]_vars

\* C4 witness: the second move of a game has been appended after an earlier
\* game of three moves was lost.
C4_Witness ==
    /\ gamestate = PLAYER
    /\ cpu_counter = 2
    /\ store_idx = 1
    /\ moves[2] # Uninit

\* C5: every entry moves[0..cpu_counter-1] is one of 0x01, 0x02, 0x04, 0x08,
\* and after a generator step the shift amount random >> 13 is in 0..3.
C5_MovesOneHot ==
    /\ \A k \in DOMAIN moves : k < cpu_counter => moves[k] \in ValidMoves
    /\ gamestate = PLAYER => Shr(random, 13) \in 0..3

\* C5 witness: a move derived from a random word that was >= 32768 before
\* the generator step.
C5_Witness ==
    /\ gamestate = PLAYER
    /\ lcg_in >= 32768
    /\ cpu_counter = 1
    /\ moves[0] \in ValidMoves

(***************************************************************************)
(* Properties of rand_lcg                                                  *)
(***************************************************************************)
\* C6: iterated from a seed below 32768, rand_lcg returns to the seed at
\* step 32768 and at no earlier step, and stays below 32768.  A value seen
\* twice within the first 32768 steps would put the seed on a cycle shorter
\* than 32768, so the 32768 values visited are pairwise distinct and are all
\* of 0..32767.
C6_FullPeriod ==
    call.fn = "rand_lcg" =>
        /\ call.ret \in 0..32767
        /\ (call.ret = call.arg) <=> (call.n = 32768)

\* C6 witness: the seed reappears at step 32768.
C6_Witness ==
    /\ call.fn = "rand_lcg"
    /\ call.n = 32768
    /\ call.ret = call.arg

\* C7: for every 16-bit state s the result of rand_lcg with 16-bit
\* wrap-around is (s*513 + 1) mod 32768 in unbounded integers, below 32768.
C7_LcgExact ==
    call.fn = "rand_lcg" =>
        /\ call.ret = ((call.arg * 513) + 1) % 32768
        /\ call.ret < 32768

\* C7 witness: a state >= 32768 whose product s*513 + 1 wraps around 2^16.
C7_Witness ==
    /\ call.fn = "rand_lcg"
    /\ call.arg >= 32768
    /\ (call.arg * 513) + 1 >= 65536
    /\ call.ret = ((call.arg * 513) + 1) % 32768

(***************************************************************************)
(* Properties of led_display                                               *)
(***************************************************************************)
\* the tables of the two versions, as sets of <<argument, pattern>>
LedTable == {<<1, 3>>, <<2, 4>>, <<4, 6>>, <<8, 1>>}

LedTableV0 == {<<1, 2>>, <<2, 5>>, <<4, 4>>, <<8, 3>>}

IsEncoding(arg, ret, table) ==
    /\ \A e \in table : arg = e[1] => ret = e[2]
    /\ arg \notin {e[1] : e \in table} => ret = 0
    /\ \A e \in table : e[2] \in 1..7
    /\ \A e, f \in table : e # f => e[2] # f[2]

\* C8: led_display is total on 0..255: each one-hot argument gives its table
\* pattern, the four patterns are pairwise distinct, non-zero and at most
\* 0x07, and every other argument gives 0.
C8_LedDisplayTable ==
    /\ call.fn = "led_display" =>
          /\ IsEncoding(call.arg, call.ret, LedTable)
          /\ \A a, b \in ValidMoves :
                a # b => led_display(a) # led_display(b)
    /\ call.fn = "led_display_v0" =>
          IsEncoding(call.arg, call.ret, LedTableV0)

\* C8 witness: led_display(0x08) returned 0x01.
C8_Witness ==
    /\ call.fn = "led_display"
    /\ call.arg = 8
    /\ call.ret = 1

(***************************************************************************)
(* Properties of get_player_move                                           *)
(***************************************************************************)
BandA == 500..520

BandB == 600..620

BandC == 660..680

BandD == 710..730

Bands == {BandA, BandB, BandC, BandD}

\* C9: with prev_move = 0 on entry, get_player_move returns 0x01, 0x02, 0x04,
\* 0x08 for the samples of [500,520], [600,620], [660,680], [710,730] and 0
\* for every other sample of 0..1023; the bands are pairwise disjoint.
C9_BandsClassified ==
    (call.fn = "get_player_move" /\ call.arg = 0) =>
        /\ raw_move \in BandA => call.ret = 1
        /\ raw_move \in BandB => call.ret = 2
        /\ raw_move \in BandC => call.ret = 4
        /\ raw_move \in BandD => call.ret = 8
        /\ raw_move \notin UNION Bands => call.ret = 0
        /\ \A X, Y \in Bands : X # Y => X \cap Y = {}

\* C9 witness: the sample 730, the upper edge of the last band, gave 0x08.
C9_Witness ==
    /\ call.fn = "get_player_move"
    /\ call.arg = 0
    /\ raw_move = 730
    /\ call.ret = 8

\* two samples of one band, or both outside every band
SameBand(x, y) ==
    \/ \E X \in Bands : x \in X /\ y \in X
    \/ x \notin UNION Bands /\ y \notin UNION Bands

\* C10: a poll whose sample lies in the band of the sample of the poll
\* before it returns 0 and leaves prev_move unchanged.
C10_HeldReportsOnce ==
    [][ (raw_move # Uninit /\ SameBand(raw_move, raw_move'))
        => (player_move' = 0 /\ prev_move' = prev_move) ]_vars

\* C10 witness: a second poll in band A returned 0.
C10_Witness ==
    /\ call.fn = "get_player_move"
    /\ call.arg = 1
    /\ raw_move \in BandA
    /\ player_move = 0
    /\ prev_move = 1

\* the move of the band a sample lies in, 0 outside every band
BandMove(x) ==
    IF x \in BandA THEN 1
    ELSE IF x \in BandB THEN 2
    ELSE IF x \in BandC THEN 4
    ELSE IF x \in BandD THEN 8
    ELSE 0

\* C11 as stated: a poll whose sample classifies differently from the
\* prev_move it found returns a move other than 0 and sets prev_move to the
\* newly classified move.
C11_ChangedNeverNone ==
    (call.fn = "get_player_move" /\ BandMove(raw_move) # call.arg) =>
        /\ call.ret # 0
        /\ prev_move = BandMove(raw_move)

\* C11: a poll whose sample classifies differently from the prev_move it
\* found returns the newly classified move and sets prev_move to it; the
\* value returned is other than 0 exactly when the sample lies in a band.
C11_ChangedReturnsNewMove ==
    (call.fn = "get_player_move" /\ BandMove(raw_move) # call.arg) =>
        /\ call.ret = BandMove(raw_move)
        /\ prev_move = BandMove(raw_move)
        /\ call.ret # 0 <=> raw_move \in UNION Bands

\* C11 witness: with prev_move = 0x01 a sample of band B was polled; 0x02 was
\* returned and remembered.
C11_Witness ==
    /\ call.fn = "get_player_move"
    /\ call.arg = 1
    /\ raw_move \in BandB
    /\ call.ret = 2
    /\ prev_move = 2

(***************************************************************************)
(* Properties of the IDLE branch                                           *)
(***************************************************************************)
\* C12: an IDLE iteration adds 1 to random modulo 2^16 and writes the sum to
\* the EEPROM word, and goes to CPU exactly when the sample is > 200, so for
\* every sample of a band; while the first game has not started, the idle
\* iterations so far have added their number to the start-up word and the
\* state is IDLE.
C12_IdleCounts ==
    [][ gamestate = IDLE =>
          /\ random' = (random + 1) % 65536
          /\ eeprom' = random'
          /\ gamestate' = (IF ADC' > 200 THEN CPU ELSE IDLE)
          /\ ADC' \in UNION Bands => gamestate' = CPU
          /\ (store_idx' = Uninit /\ gamestate' = IDLE) =>
                /\ random' = (seed + idle_ticks') % 65536
                /\ idle_ticks' = idle_ticks + 1 ]_vars

\* C12 witness: three IDLE iterations with samples <= 200 from the start-up
\* word 65535 wrapped random to 2, which is the EEPROM word; still IDLE.
C12_Witness ==
    /\ gamestate = IDLE
    /\ store_idx = Uninit
    /\ idle_ticks = 3
    /\ ADC <= 200
    /\ seed = 65535
    /\ random = 2
    /\ eeprom = 2

(***************************************************************************)
(* Properties of the CPU branch                                            *)
(***************************************************************************)
\* C13: a CPU iteration makes one generator step, stores the move
\* 0x01 << (random' >> 13) at index cpu_counter, reads no sample and ends in
\* PLAYER with player_counter = 0; so the first move of a game is a function
\* of random alone, and a PLAYER iteration that returns it while the
\* sequence has length 1 goes to CPU with player_counter = 0.
C13_CpuTurnStep ==
    [][ /\ gamestate = CPU =>
              /\ lcg_in' = random
              /\ random' = (random * 513 + 1) % 32768
              /\ moves'[cpu_counter] = 2 ^ (random' \div 8192)
              /\ store_idx' = cpu_counter
              /\ cpu_counter' = cpu_counter + 1
              /\ ADC' = ADC
              /\ gamestate' = PLAYER
              /\ player_counter' = 0
        /\ (gamestate = PLAYER /\ cpu_counter = 1 /\ player_move' = moves[0]) =>
              /\ gamestate' = CPU
              /\ player_counter' = 0
              /\ cpu_counter' = 1 ]_vars

\* C13 witness: the first move was entered and round 2 is about to start.
C13_Witness ==
    /\ gamestate = CPU
    /\ cpu_counter = 1
    /\ player_counter = 0
    /\ inputs = <<moves[0]>>
    /\ moves[0] = 2 ^ (random \div 8192)

C15_PersistedEqualsRandom ==
    [][ /\ eeprom = random
        /\ eeprom' = random'
        /\ seed' = seed
        /\ gamestate = CPU => random' = rand_lcg(random, 32768, 513, 1)
        /\ gamestate = IDLE => random' = (random + 1) % 65536
        /\ gamestate = PLAYER => (random' = random /\ eeprom' = eeprom) ]_vars

\* C15 witness: after an idle increment and a generator step the EEPROM word
\* is the new random, which is neither the start-up word nor the increment.
C15_Witness ==
    /\ gamestate = PLAYER
    /\ lcg_in = (seed + idle_ticks) % 65536
    /\ random = rand_lcg(lcg_in, 32768, 513, 1)
    /\ random > 255
    /\ random # seed
    /\ eeprom = random

\* C16: a CPU iteration that finds cpu_counter = len < MAX_MOVES writes to the
\* port, in order and each once, led_display(moves[0]), off, ...,
\* led_display(moves[len]), off, the moves being those of the sequence after
\* the append, and nothing else before the state is PLAYER.
C16_PlaybackOrder ==
    [][ (gamestate = CPU /\ cpu_counter < MAX_MOVES) =>
          /\ Len(port_log'.seq) = 2 * (cpu_counter + 1)
          /\ \A k \in 0..cpu_counter :
                /\ moves'[k] \in ValidMoves
                /\ port_log'.seq[2 * k + 1] = led_display(moves'[k])
                /\ port_log'.seq[2 * k + 1] # 0
                /\ port_log'.seq[2 * k + 2] = 0
          /\ port_log'.vals = {0} \cup {led_display(moves'[k]) : k \in 0..cpu_counter}
          /\ PORTB' = 0
          /\ gamestate' = PLAYER ]_vars

\* C16 witness: the playback of a sequence of 100 moves made 200 writes, the
\* last two showing the move just appended and off.
C16_Witness ==
    /\ gamestate = PLAYER
    /\ cpu_counter = 100
    /\ player_counter = 0
    /\ player_move = moves[98]
    /\ Len(port_log.seq) = 200
    /\ port_log.seq[199] = led_display(moves[99])
    /\ port_log.seq[200] = 0

(***************************************************************************)
(* Properties of the PLAYER branch                                         *)
(***************************************************************************)
\* C17: a PLAYER iteration in which get_player_move returns 0 leaves
\* gamestate, player_counter, the moves, cpu_counter, random and the EEPROM
\* word as they were and clears the display with a single write; only the
\* sample and prev_move can change.
C17_NoneChangesNothing ==
    [][ (gamestate = PLAYER /\ player_move' = 0) =>
          /\ gamestate' = PLAYER
          /\ player_counter' = player_counter
          /\ moves' = moves
          /\ cpu_counter' = cpu_counter
          /\ random' = random
          /\ eeprom' = eeprom
          /\ UNCHANGED <<cascade_i, cascade_up, store_idx, inputs, seed>>
          /\ PORTB' % 16 = 0
          /\ port_log'.seq = <<PORTB'>>
          /\ port_log'.pre = {} ]_vars

\* C17 witness: after one matched move of three the button was held for
\* another poll, which returned 0; the progress is still 1.
C17_Witness ==
    /\ gamestate = PLAYER
    /\ cpu_counter = 3
    /\ player_counter = 1
    /\ Len(inputs) = 1
    /\ raw_move \in UNION Bands
    /\ prev_move = BandMove(raw_move)
    /\ player_move = 0
    /\ port_log.seq = <<0>>

(***************************************************************************)
(* Properties of cascade_leds                                              *)
(***************************************************************************)
\* the position 0,1,2,3,2,1,0,1,... of the animation after n steps
Bounce(n) == LET r == n % 6 IN IF r <= 3 THEN r ELSE 6 - r

\* C18: the animation index is always in 0..3; the IDLE iteration number n
\* (counted over all visits of IDLE) shows led_display of the one-hot move
\* 0x01 << Bounce(n - 1) and then clears it, so the positions shown are
\* 0,1,2,3,2,1,0,1,...; CPU and PLAYER iterations leave the index and the
\* direction alone, so the animation goes on where it stopped.
C18_CascadeBounces ==
    [][ /\ cascade_i \in 0..3
        /\ cascade_i' \in 0..3
        /\ cascade_i' = Bounce(idle_ticks')
        /\ gamestate = IDLE =>
              /\ idle_ticks' = idle_ticks + 1
              /\ 2 ^ cascade_i \in ValidMoves
              /\ port_log'.seq[1] = led_display(2 ^ Bounce(idle_ticks))
              /\ port_log'.seq[1] \in {3, 4, 6, 1}
              /\ port_log'.seq[2] = 0
        /\ gamestate # IDLE =>
              UNCHANGED <<cascade_i, cascade_up, idle_ticks>> ]_vars

\* C18 witness: the eleventh IDLE iteration, after a lost game, showed
\* position 2 on the way down and left the index at 1.
C18_Witness ==
    /\ gamestate = IDLE
    /\ store_idx # Uninit
    /\ cpu_counter = 0
    /\ idle_ticks = 11
    /\ port_log.seq = <<led_display(4), 0>>
    /\ cascade_i = 1
    /\ cascade_up = 0

(***************************************************************************)
(* Properties of the counters                                              *)
(***************************************************************************)
\* C19: in PLAYER, 0 <= player_counter < cpu_counter and moves[player_counter]
\* was stored in the current game (the stores of the game went to the indices
\* 0..cpu_counter-1); in CPU and in IDLE player_counter = 0; in IDLE
\* cpu_counter = 0.
C19_CountersInRange ==
    /\ gamestate = PLAYER =>
          /\ 0 <= player_counter
          /\ player_counter < cpu_counter
          /\ store_idx = cpu_counter - 1
          /\ moves[player_counter] \in ValidMoves
    /\ gamestate \in {CPU, IDLE} => player_counter = 0
    /\ gamestate = IDLE => cpu_counter = 0

\* C19 witness: two moves of three are matched, the third is awaited.
C19_Witness ==
    /\ gamestate = PLAYER
    /\ cpu_counter = 3
    /\ player_counter = 2
    /\ inputs = <<moves[0], moves[1]>>

(***************************************************************************)
(* Properties of the display                                               *)
(***************************************************************************)
\* the values of the three output lines: all off, or one pattern of the table
OnePattern == {0} \cup {e[2] : e \in LedTable}

\* the writes of one iteration: before every |= the low four bits were 0,
\* every value of the output lines was off or one pattern, and the low bits
\* are 0 at the end
CleanWrites(pre, vals, port) ==
    /\ \A p \in pre : p % 16 = 0
    /\ \A v \in vals : v % 8 \in OnePattern /\ v % 16 = v % 8
    /\ port % 16 = 0

\* C20: the low bits of PORTB are 0 at the top of every loop iteration and
\* immediately before every PORTB |= led_display(...) and set_display, so the
\* output lines show 0 or exactly one pattern of the table, never the OR of
\* two; the same holds for the writes the error branch would make from the
\* state.
C20_DisplayNeverMixed ==
    /\ CleanWrites(port_log.pre, port_log.vals, PORTB)
    /\ LET e == ErrorBranch(PortBegin(PORTB))
       IN  /\ CleanWrites(e.pre, e.vals, e.port)
           /\ e.seq = <<3, 0, 1, 0>>

\* C20 witness: a wrong move was flashed twice and blink_leds ran twice;
\* every |= found the low bits 0 and all four patterns were shown.
C20_Witness ==
    /\ gamestate = IDLE
    /\ inputs # <<>>
    /\ player_move # 0
    /\ port_log.pre = {0}
    /\ port_log.vals = {0, 1, 3, 4, 6}
    /\ port_log.seq = <<led_display(player_move), 0, led_display(player_move), 0>>
    /\ PORTB = 0

(***************************************************************************)
(* Properties of the alternating player                                    *)
(***************************************************************************)
\* C21: whatever the moves stored and whatever prev_move holds when PLAYER is
\* entered, a player whose polls alternate a released sample with a sample
\* of the band of moves[player_counter] completes the round: a press polled
\* after a polled release is counted once, and PLAYER leads to CPU.  A poll
\* whose sample lies in the band of the sample polled before it, with no
\* differently classified sample between them, counts no move.
C21_AlternatingCompletes ==
    /\ [][ gamestate = PLAYER =>
             /\ ( /\ last_poll # Uninit
                  /\ BandMove(last_poll) = 0
                  /\ BandMove(raw_move') = moves[player_counter] ) =>
                     /\ inputs' = Append(inputs, moves[player_counter])
                     /\ IF player_counter = cpu_counter - 1
                        THEN gamestate' = CPU /\ player_counter' = 0
                        ELSE gamestate' = PLAYER
                             /\ player_counter' = player_counter + 1
             /\ (raw_move # Uninit /\ SameBand(raw_move, raw_move')) =>
                     /\ inputs' = inputs
                     /\ player_counter' = player_counter
                     /\ gamestate' = PLAYER ]_vars
    /\ (gamestate = PLAYER /\ ~ LossAllowed) ~> (gamestate = CPU)

\* C21 witness: in the last game the round of two equal moves was completed,
\* prev_move holding that move from the round before: both presses counted.
C21_Witness ==
    /\ ~ LossAllowed
    /\ gamestate = CPU
    /\ cpu_counter = 2
    /\ moves[0] = moves[1]
    /\ inputs = <<moves[0], moves[1]>>
    /\ store_idx = 1
    /\ prev_move = moves[1]

====
